---- MODULE Spec2Model ----
(***************************************************************************)
(* Interval tree of pkg/interval/interval.go: an augmented Left-Leaning    *)
(* Red-Black tree keyed by (Range.Start, ID).  A *Node is a record, a nil  *)
(* pointer is Nil; every method of Node is an operator that returns the    *)
(* subtree the Go method leaves behind, and every mutating method of Tree  *)
(* is one action.                                                          *)
(***************************************************************************)
EXTENDS Integers, Sequences, FiniteSets, TLC

VARIABLES Root, Count, Mode, lastOp

vars == <<Root, Count, Mode, lastOp>>

----------------------------------------------------------------------------
(* Bounds of the model. *)

\* Insert is offered only while fewer than MaxNodes elements are stored.
MaxNodes == 4

\* Width in bits of the element ID (int64 in the source, scaled down).
IDWidth == 3

----------------------------------------------------------------------------
(* Values. *)

TD234 == "TD234"
BU23 == "BU23"

\* llrb.Color is a bool: Red is false (the zero value), Black is true.
Red == FALSE
Black == TRUE

\* Let(v, F) is F(v) with v evaluated once: a local variable of the source.
Let(v, F(_)) == CHOOSE r \in {F(x) : x \in {v}} : TRUE

Nil == [nil |-> TRUE]

\* What an operation yields when it dereferences a nil *Node: the Go runtime
\* panics and the operation does not complete.
Panic == [panic |-> TRUE]

\* Comparable is a byte string.
Comparables == {<<1>>, <<1, 0>>, <<2>>}

MinInt == -(2 ^ (IDWidth - 1))

\* Every Range a caller can query with, inverted ones (Start > End) included.
Ranges == [Start : Comparables, End : Comparables]

\* A nil Interface: what Min and Max return on an empty tree, and the
\* element recorded for an operation that takes none.
NoElem == [none |-> TRUE]

\* An Interface value: what Range() and ID() return.
Elem(start, end, id) == [Start |-> start, End |-> end, ID |-> id]

\* The Interface values the callers insert.  ID is unique for the element
\* (interval.go, Interface): every ID comes with one Start.  The elements
\* share Starts (ties broken by ID, one ID the most negative), share keys
\* with different Ends (replacing inserts), include empty ranges
\* (Start = End) and one inverted range.
Elems ==
    { Elem(<<1>>, <<1>>, 0),
      Elem(<<1>>, <<2>>, 1),
      Elem(<<1>>, <<1, 0>>, 1),
      Elem(<<1>>, <<1, 0>>, MinInt),
      Elem(<<1, 0>>, <<2>>, 2),
      Elem(<<1, 0>>, <<1, 0>>, 2),
      Elem(<<2>>, <<2>>, 3),
      Elem(<<2>>, <<1>>, 3) }

\* Interface values the callers only look up: the ID of an element of
\* Elems with another Start.
Strays ==
    { Elem(<<1, 0>>, <<2>>, 0),
      Elem(<<1>>, <<2>>, 3) }

\* What Delete is called with.
DeleteArgs == Elems \cup Strays

\* Interface.Range()
ElemRange(e) == [Start |-> e.Start, End |-> e.End]

\* id - other in the ID's width: the difference wraps.
WrapSub(a, b) == (((a - b) + (2 ^ (IDWidth - 1))) % (2 ^ IDWidth)) - (2 ^ (IDWidth - 1))

RECURSIVE Compare(_, _)
\* Comparable.Compare: bytes.Compare, lexicographic over unsigned bytes.
Compare(a, b) ==
    IF a = <<>> THEN (IF b = <<>> THEN 0 ELSE -1)
    ELSE IF b = <<>> THEN 1
    ELSE IF Head(a) < Head(b) THEN -1
    ELSE IF Head(a) > Head(b) THEN 1
    ELSE Compare(Tail(a), Tail(b))

\* exclusiveOverlapper.Overlap
Overlap(a, b) == Compare(a.Start, b.End) < 0 /\ Compare(b.Start, a.End) < 0

----------------------------------------------------------------------------
(* Helper methods of Node. *)

color(n) == IF n = Nil THEN Black ELSE n.Color

maxRange(root, left, right) ==
    LET end0 == root.Elem.End
        end1 == IF left # Nil /\ Compare(left.Range.End, end0) > 0
                THEN left.Range.End ELSE end0
    IN IF right # Nil /\ Compare(right.Range.End, end1) > 0
       THEN right.Range.End ELSE end1

\* rotateLeft without line 149: the demoted node keeps the End it had as
\* the root of the whole subtree.
rotateLeft_StaleEnd(n) ==
    LET root0 == n.Right
        n2 == [n EXCEPT !.Right = root0.Left, !.Color = Red]
        root1 == [root0 EXCEPT !.Left = n2, !.Color = n.Color,
                               !.Range.Start = n2.Range.Start]
    IN [root1 EXCEPT !.Range.End = maxRange(root1, root1.Left, root1.Right)]

\* (a,c)b -rotL-> ((a,)b,)c
rotateLeft(n) ==
    LET root0 == n.Right
        n1 == [n EXCEPT !.Right = root0.Left, !.Color = Red]
        n2 == [n1 EXCEPT !.Range.End = maxRange(n1, n1.Left, n1.Right)]
        root1 == [root0 EXCEPT !.Left = n2, !.Color = n.Color,
                               !.Range.Start = n2.Range.Start]
    IN [root1 EXCEPT !.Range.End = maxRange(root1, root1.Left, root1.Right)]

\* (a,c)b -rotR-> (,(,c)b)a
rotateRight(n) ==
    LET root0 == n.Left
        n1 == [n EXCEPT !.Left = root0.Right, !.Color = Red]
        n2 == [n1 EXCEPT !.Range.Start = IF n1.Left = Nil THEN n1.Elem.Start
                                         ELSE n1.Left.Range.Start]
        n3 == [n2 EXCEPT !.Range.End = maxRange(n2, n2.Left, n2.Right)]
        root1 == [root0 EXCEPT !.Right = n3, !.Color = n.Color]
    IN [root1 EXCEPT !.Range.End = maxRange(root1, root1.Left, root1.Right)]

\* (aR,cR)bB -flipC-> (aB,cB)bR | (aB,cB)bR -flipC-> (aR,cR)bB
\* Dereferences both children: with a nil child the Go runtime panics.
flipColors(n) ==
    IF n.Left = Nil \/ n.Right = Nil
    THEN Panic
    ELSE [n EXCEPT !.Color = ~n.Color,
                   !.Left = [n.Left EXCEPT !.Color = ~n.Left.Color],
                   !.Right = [n.Right EXCEPT !.Color = ~n.Right.Color]]

adjustRange(n) ==
    LET n1 == [n EXCEPT !.Range.Start = IF n.Left = Nil THEN n.Elem.Start
                                        ELSE n.Left.Range.Start]
    IN [n1 EXCEPT !.Range.End = maxRange(n1, n1.Left, n1.Right)]

\* Node.fixUp without the TD234 rotation of lines 195-197.
fixUp_NoTD234(n, fast) ==
    Let(IF ~fast THEN adjustRange(n) ELSE n, LAMBDA n1 :
    Let(IF color(n1.Right) = Red THEN rotateLeft(n1) ELSE n1, LAMBDA n2 :
    Let(IF color(n2.Left) = Red /\ color(n2.Left.Left) = Red
        THEN rotateRight(n2) ELSE n2, LAMBDA n3 :
    IF Mode = BU23 /\ color(n3.Left) = Red /\ color(n3.Right) = Red
    THEN flipColors(n3) ELSE n3)))

\* Node.fixUp without the adjustRange of lines 191-193.
fixUp_NoAdjust(n, fast) ==
    Let(IF color(n.Right) = Red
        THEN IF Mode = TD234 /\ color(n.Right.Left) = Red
             THEN rotateLeft([n EXCEPT !.Right = rotateRight(n.Right)])
             ELSE rotateLeft(n)
        ELSE n, LAMBDA n2 :
    Let(IF color(n2.Left) = Red /\ color(n2.Left.Left) = Red
        THEN rotateRight(n2) ELSE n2, LAMBDA n3 :
    IF Mode = BU23 /\ color(n3.Left) = Red /\ color(n3.Right) = Red
    THEN flipColors(n3) ELSE n3))

fixUp(n, fast) ==
    Let(IF ~fast THEN adjustRange(n) ELSE n, LAMBDA n1 :
    Let(IF color(n1.Right) = Red
        THEN IF Mode = TD234 /\ color(n1.Right.Left) = Red
             THEN rotateLeft([n1 EXCEPT !.Right = rotateRight(n1.Right)])
             ELSE rotateLeft(n1)
        ELSE n1, LAMBDA n2 :
    Let(IF color(n2.Left) = Red /\ color(n2.Left.Left) = Red
        THEN rotateRight(n2) ELSE n2, LAMBDA n3 :
    IF Mode = BU23 /\ color(n3.Left) = Red /\ color(n3.Right) = Red
    THEN flipColors(n3) ELSE n3)))

moveRedLeft(n) ==
    Let(flipColors(n), LAMBDA n1 :
    IF n1 = Panic THEN Panic
    ELSE IF color(n1.Right.Left) = Red
    THEN Let(rotateRight(n1.Right), LAMBDA r :
         Let(rotateLeft([n1 EXCEPT !.Right = r]), LAMBDA n3 :
         Let(flipColors(n3), LAMBDA n4 :
         IF Mode = TD234 /\ color(n4.Right.Right) = Red
         THEN [n4 EXCEPT !.Right = rotateLeft(n4.Right)]
         ELSE n4)))
    ELSE n1)

moveRedRight(n) ==
    Let(flipColors(n), LAMBDA n1 :
    IF n1 = Panic THEN Panic
    ELSE IF color(n1.Left.Left) = Red
    THEN Let(rotateRight(n1), LAMBDA n2 : flipColors(n2))
    ELSE n1)

----------------------------------------------------------------------------
(* Insert. *)

\* The end of Node.insert without the colour flip of lines 338-342.
insertUp_NoFlip(n2, fast) ==
    Let(IF color(n2.Right) = Red /\ color(n2.Left) = Black
        THEN rotateLeft(n2) ELSE n2, LAMBDA n3 :
    Let(IF color(n3.Left) = Red /\ color(n3.Left.Left) = Red
        THEN rotateRight(n3) ELSE n3, LAMBDA n4 :
    IF ~fast THEN adjustRange(n4) ELSE n4))

\* The end of Node.insert, after the descent: rebalance, then adjustRange.
insertUp(n2, fast) ==
    Let(IF color(n2.Right) = Red /\ color(n2.Left) = Black
        THEN rotateLeft(n2) ELSE n2, LAMBDA n3 :
    Let(IF color(n3.Left) = Red /\ color(n3.Left.Left) = Red
        THEN rotateRight(n3) ELSE n3, LAMBDA n4 :
    Let(IF Mode = BU23 /\ color(n4.Left) = Red /\ color(n4.Right) = Red
        THEN flipColors(n4) ELSE n4, LAMBDA n5 :
    IF ~fast THEN adjustRange(n5) ELSE n5)))

RECURSIVE insert(_, _, _, _, _)
\* Node.insert: the new subtree root and the change of the element count.
\* (The branch for a node without an element is dead: no operation stores
\* a nil Elem.)
insert(n, e, min_, id, fast) ==
    IF n = Nil
    THEN [root |-> [Elem |-> e, Range |-> ElemRange(e), Left |-> Nil,
                    Right |-> Nil, Color |-> Red],
          d |-> 1]
    ELSE
    Let(IF Mode = TD234 /\ color(n.Left) = Red /\ color(n.Right) = Red
        THEN flipColors(n) ELSE n, LAMBDA n1 :
    Let(Compare(min_, n1.Elem.Start), LAMBDA c :
    Let(WrapSub(id, n1.Elem.ID), LAMBDA cid :
    IF c = 0 /\ cid = 0
    THEN [root |-> insertUp(IF ~fast
                            THEN [n1 EXCEPT !.Elem = e, !.Range.End = e.End]
                            ELSE [n1 EXCEPT !.Elem = e], fast),
          d |-> 0]
    ELSE IF c < 0 \/ (c = 0 /\ cid < 0)
    THEN Let(insert(n1.Left, e, min_, id, fast), LAMBDA sub :
         [root |-> insertUp([n1 EXCEPT !.Left = sub.root], fast),
          d |-> sub.d])
    ELSE Let(insert(n1.Right, e, min_, id, fast), LAMBDA sub :
         [root |-> insertUp([n1 EXCEPT !.Right = sub.root], fast),
          d |-> sub.d]))))

\* Tree.Insert without the test of lines 285-287.
TreeInsert_NoCheck(root, count, e, fast) ==
    Let(insert(root, e, e.Start, e.ID, fast), LAMBDA r :
    [Root |-> [r.root EXCEPT !.Color = Black],
     Count |-> count + r.d, err |-> "nil"])

\* Tree.Insert: the tree and the error it returns.
TreeInsert(root, count, e, fast) ==
    IF Compare(e.Start, e.End) > 0
    THEN [Root |-> root, Count |-> count, err |-> "ErrInvertedRange"]
    ELSE Let(insert(root, e, e.Start, e.ID, fast), LAMBDA r :
         [Root |-> [r.root EXCEPT !.Color = Black],
          Count |-> count + r.d, err |-> "nil"])

----------------------------------------------------------------------------
(* DeleteMin, DeleteMax, Delete. *)

RECURSIVE min(_)
min(n) == IF n.Left # Nil THEN min(n.Left) ELSE n

RECURSIVE max(_)
max(n) == IF n.Right # Nil THEN max(n.Right) ELSE n

\* The end of a descent to the left in deleteMin and delete: sub is what
\* the call on n1.Left returned.
leftUp(n1, sub, fast) ==
    IF sub = Panic THEN Panic
    ELSE Let([n1 EXCEPT !.Left = sub.root], LAMBDA n2 :
         Let(IF n2.Left = Nil
             THEN [n2 EXCEPT !.Range.Start = n2.Elem.Start] ELSE n2,
             LAMBDA n3 :
         [root |-> fixUp(n3, fast), d |-> sub.d]))

\* The end of a descent to the right in deleteMax and delete: sub is what
\* the call on n2.Right returned.
rightUp(n2, sub, fast) ==
    IF sub = Panic THEN Panic
    ELSE Let([n2 EXCEPT !.Right = sub.root], LAMBDA n3 :
         Let(IF n3.Right = Nil
             THEN [n3 EXCEPT !.Range.End = n3.Elem.End] ELSE n3,
             LAMBDA n4 :
         [root |-> fixUp(n4, fast), d |-> sub.d]))

RECURSIVE deleteMin(_, _)
\* Node.deleteMin: the new subtree root and the change of the element count,
\* or Panic.
deleteMin(n, fast) ==
    IF n.Left = Nil
    THEN [root |-> Nil, d |-> -1]
    ELSE
    Let(IF color(n.Left) = Black /\ color(n.Left.Left) = Black
        THEN moveRedLeft(n) ELSE n, LAMBDA n1 :
    IF n1 = Panic THEN Panic
    ELSE Let(deleteMin(n1.Left, fast), LAMBDA sub : leftUp(n1, sub, fast)))

\* The end of DeleteMin, DeleteMax and Delete: r is what the descent from
\* the root returned.
Finish(root, count, r) ==
    IF r = Panic
    THEN [Root |-> root, Count |-> count, err |-> "panic"]
    ELSE [Root |-> IF r.root = Nil THEN Nil
                   ELSE [r.root EXCEPT !.Color = Black],
          Count |-> count + r.d, err |-> "nil"]

\* Tree.DeleteMin
TreeDeleteMin(root, count, fast) ==
    IF root = Nil
    THEN [Root |-> root, Count |-> count, err |-> "nil"]
    ELSE Let(deleteMin(root, fast), LAMBDA r : Finish(root, count, r))

RECURSIVE deleteMax(_, _)
\* Node.deleteMax
deleteMax(n, fast) ==
    Let(IF n.Left # Nil /\ color(n.Left) = Red
        THEN rotateRight(n) ELSE n, LAMBDA n1 :
    IF n1.Right = Nil
    THEN [root |-> Nil, d |-> -1]
    ELSE
    Let(IF color(n1.Right) = Black /\ color(n1.Right.Left) = Black
        THEN moveRedRight(n1) ELSE n1, LAMBDA n2 :
    IF n2 = Panic THEN Panic
    ELSE Let(deleteMax(n2.Right, fast), LAMBDA sub : rightUp(n2, sub, fast))))

\* Tree.DeleteMax
TreeDeleteMax(root, count, fast) ==
    IF root = Nil
    THEN [Root |-> root, Count |-> count, err |-> "nil"]
    ELSE Let(deleteMax(root, fast), LAMBDA r : Finish(root, count, r))

\* The test of Node.delete that sends the descent to the left: the key
\* sought is below n's, IDs compared with <.
deleteGoesLeft(n, min_, id) ==
    LET p == Compare(min_, n.Elem.Start)
    IN p < 0 \/ (p = 0 /\ id < n.Elem.ID)

\* The test of Node.delete that takes n for the node to remove.
deleteHit(n, id) == id = n.Elem.ID

RECURSIVE delete(_, _, _, _)
\* Node.delete: the new subtree root and the change of the element count,
\* or Panic.
delete(n, min_, id, fast) ==
    IF deleteGoesLeft(n, min_, id)
    THEN
        IF n.Left # Nil
        THEN Let(IF color(n.Left) = Black /\ color(n.Left.Left) = Black
                 THEN moveRedLeft(n) ELSE n, LAMBDA n1 :
             IF n1 = Panic THEN Panic
             ELSE Let(delete(n1.Left, min_, id, fast), LAMBDA sub :
                  leftUp(n1, sub, fast)))
        ELSE [root |-> fixUp(n, fast), d |-> 0]
    ELSE
        Let(IF color(n.Left) = Red THEN rotateRight(n) ELSE n, LAMBDA n1 :
        IF n1.Right = Nil /\ deleteHit(n1, id)
        THEN [root |-> Nil, d |-> -1]
        ELSE IF n1.Right # Nil
        THEN Let(IF color(n1.Right) = Black /\ color(n1.Right.Left) = Black
                 THEN moveRedRight(n1) ELSE n1, LAMBDA n2 :
             IF n2 = Panic THEN Panic
             ELSE IF deleteHit(n2, id)
             THEN Let(deleteMin(n2.Right, fast), LAMBDA sub :
                  rightUp([n2 EXCEPT !.Elem = min(n2.Right).Elem], sub, fast))
             ELSE Let(delete(n2.Right, min_, id, fast), LAMBDA sub :
                  rightUp(n2, sub, fast)))
        ELSE [root |-> fixUp(n1, fast), d |-> 0])

\* The test of Tree.Delete that returns early, before any descent.
deleteSkips(root, e) == root = Nil \/ ~Overlap(ElemRange(e), root.Range)

\* Tree.Delete: the tree and the error it returns.
TreeDelete(root, count, e, fast) ==
    IF Compare(e.Start, e.End) > 0
    THEN [Root |-> root, Count |-> count, err |-> "ErrInvertedRange"]
    ELSE IF deleteSkips(root, e)
    THEN [Root |-> root, Count |-> count, err |-> "nil"]
    ELSE Let(delete(root, e.Start, e.ID, fast), LAMBDA r :
         Finish(root, count, r))

----------------------------------------------------------------------------
(* AdjustRanges. *)

RECURSIVE adjustRanges_RootFirst(_)
\* Node.adjustRanges with line 278 moved before the descent: a node is
\* adjusted before its children are.
adjustRanges_RootFirst(n) ==
    Let(adjustRange(n), LAMBDA n0 :
    Let(IF n0.Left # Nil
        THEN [n0 EXCEPT !.Left = adjustRanges_RootFirst(n0.Left)] ELSE n0,
        LAMBDA n1 :
    IF n1.Right # Nil
    THEN [n1 EXCEPT !.Right = adjustRanges_RootFirst(n1.Right)] ELSE n1))

RECURSIVE adjustRanges(_)
adjustRanges(n) ==
    Let(IF n.Left # Nil
        THEN [n EXCEPT !.Left = adjustRanges(n.Left)] ELSE n, LAMBDA n1 :
    Let(IF n1.Right # Nil
        THEN [n1 EXCEPT !.Right = adjustRanges(n1.Right)] ELSE n1, LAMBDA n2 :
    adjustRange(n2)))

\* Tree.AdjustRanges adjusting the root alone.
TreeAdjustRanges_RootOnly(root) == IF root = Nil THEN root ELSE adjustRange(root)

\* Tree.AdjustRanges
TreeAdjustRanges(root) == IF root = Nil THEN root ELSE adjustRanges(root)

----------------------------------------------------------------------------
(* Queries.  An Operation (the visitor fn) is modelled by the list acc of   *)
(* the elements it has been called with and a number k: it returns done on *)
(* its k-th call, and never when k = 0.                                    *)

fn(acc, e, k) == [done |-> Len(acc) + 1 = k, acc |-> Append(acc, e)]

\* What a traversal that visits nothing returns.
NotDone(acc) == [done |-> FALSE, acc |-> acc]

\* Tree.Min
Min(root) == IF root = Nil THEN NoElem ELSE min(root).Elem

\* Tree.Max
Max(root) == IF root = Nil THEN NoElem ELSE max(root).Elem

RECURSIVE do_NoLeftReturn(_, _, _)
\* Node.do without the return of lines 601-603: done from the left subtree
\* does not stop the traversal.
do_NoLeftReturn(n, acc, k) ==
    Let(IF n.Left # Nil THEN do_NoLeftReturn(n.Left, acc, k)
        ELSE NotDone(acc), LAMBDA l :
    Let(fn(l.acc, n.Elem, k), LAMBDA v :
    IF v.done THEN v
    ELSE IF n.Right # Nil THEN do_NoLeftReturn(n.Right, v.acc, k)
    ELSE v))

RECURSIVE do(_, _, _)
\* Node.do
do(n, acc, k) ==
    Let(IF n.Left # Nil THEN do(n.Left, acc, k) ELSE NotDone(acc), LAMBDA l :
    IF l.done THEN l
    ELSE Let(fn(l.acc, n.Elem, k), LAMBDA v :
         IF v.done THEN v
         ELSE IF n.Right # Nil THEN do(n.Right, v.acc, k)
         ELSE v))

\* Tree.Do
Do(root, k) == IF root = Nil THEN NotDone(<<>>) ELSE do(root, <<>>, k)

RECURSIVE doReverse(_, _, _)
\* Node.doReverse
doReverse(n, acc, k) ==
    Let(IF n.Right # Nil THEN doReverse(n.Right, acc, k) ELSE NotDone(acc),
        LAMBDA r :
    IF r.done THEN r
    ELSE Let(fn(r.acc, n.Elem, k), LAMBDA v :
         IF v.done THEN v
         ELSE IF n.Left # Nil THEN doReverse(n.Left, v.acc, k)
         ELSE v))

\* Tree.DoReverse
DoReverse(root, k) ==
    IF root = Nil THEN NotDone(<<>>) ELSE doReverse(root, <<>>, k)

RECURSIVE doMatch_ElemPrune(_, _, _, _)
\* Node.doMatch pruning the left subtree on the range of the left child's
\* element instead of the range of the subtree.
doMatch_ElemPrune(n, acc, k, r) ==
    Let(IF n.Left # Nil /\ Overlap(r, ElemRange(n.Left.Elem))
        THEN doMatch_ElemPrune(n.Left, acc, k, r) ELSE NotDone(acc), LAMBDA l :
    IF l.done THEN l
    ELSE Let(IF Overlap(r, ElemRange(n.Elem))
             THEN fn(l.acc, n.Elem, k) ELSE l, LAMBDA v :
         IF v.done THEN v
         ELSE IF n.Right # Nil /\ Overlap(r, n.Right.Range)
         THEN doMatch_ElemPrune(n.Right, v.acc, k, r)
         ELSE v))

RECURSIVE doMatch(_, _, _, _)
\* Node.doMatch, with the exclusive overlapper
doMatch(n, acc, k, r) ==
    Let(IF n.Left # Nil /\ Overlap(r, n.Left.Range)
        THEN doMatch(n.Left, acc, k, r) ELSE NotDone(acc), LAMBDA l :
    IF l.done THEN l
    ELSE Let(IF Overlap(r, ElemRange(n.Elem))
             THEN fn(l.acc, n.Elem, k) ELSE l, LAMBDA v :
         IF v.done THEN v
         ELSE IF n.Right # Nil /\ Overlap(r, n.Right.Range)
         THEN doMatch(n.Right, v.acc, k, r)
         ELSE v))

\* Tree.DoMatching
DoMatching(root, k, r) ==
    IF root # Nil /\ Overlap(r, root.Range)
    THEN doMatch(root, <<>>, k, r) ELSE NotDone(<<>>)

\* Tree.Get: GetWithOverlapper with the tree's overlapper; its visitor
\* appends and never returns done.
Get(root, r) ==
    IF root # Nil /\ Overlap(r, root.Range)
    THEN doMatch(root, <<>>, 0, r).acc ELSE <<>>

RECURSIVE doMatchReverse(_, _, _, _)
\* Node.doMatchReverse
doMatchReverse(n, acc, k, r) ==
    Let(IF n.Right # Nil /\ Overlap(r, n.Right.Range)
        THEN doMatchReverse(n.Right, acc, k, r) ELSE NotDone(acc), LAMBDA x :
    IF x.done THEN x
    ELSE Let(IF Overlap(r, ElemRange(n.Elem))
             THEN fn(x.acc, n.Elem, k) ELSE x, LAMBDA v :
         IF v.done THEN v
         ELSE IF n.Left # Nil /\ Overlap(r, n.Left.Range)
         THEN doMatchReverse(n.Left, v.acc, k, r)
         ELSE v))

\* Tree.DoMatchingReverse
DoMatchingReverse(root, k, r) ==
    IF root # Nil /\ Overlap(r, root.Range)
    THEN doMatchReverse(root, <<>>, k, r) ELSE NotDone(<<>>)

RECURSIVE floor(_, _, _)
\* Node.floor: the node found, or Nil
floor(n, m, id) ==
    IF n = Nil THEN Nil
    ELSE Let(Compare(m, n.Elem.Start), LAMBDA c :
         IF c = 0
         THEN Let(WrapSub(id, n.Elem.ID), LAMBDA cid :
              IF cid = 0 THEN n
              ELSE IF cid < 0 THEN floor(n.Left, m, id)
              ELSE Let(floor(n.Right, m, id), LAMBDA r :
                   IF r # Nil THEN r ELSE n))
         ELSE IF c < 0 THEN floor(n.Left, m, id)
         ELSE Let(floor(n.Right, m, id), LAMBDA r :
              IF r # Nil THEN r ELSE n))

\* Tree.Floor: the element returned, NoElem for nil
Floor(root, q) ==
    IF root = Nil THEN NoElem
    ELSE Let(floor(root, q.Start, q.ID), LAMBDA n :
         IF n = Nil THEN NoElem ELSE n.Elem)

RECURSIVE ceil(_, _, _)
\* Node.ceil: the node found, or Nil
ceil(n, m, id) ==
    IF n = Nil THEN Nil
    ELSE Let(Compare(m, n.Elem.Start), LAMBDA c :
         IF c = 0
         THEN Let(WrapSub(id, n.Elem.ID), LAMBDA cid :
              IF cid = 0 THEN n
              ELSE IF cid > 0 THEN ceil(n.Right, m, id)
              ELSE Let(ceil(n.Left, m, id), LAMBDA l :
                   IF l # Nil THEN l ELSE n))
         ELSE IF c > 0 THEN ceil(n.Right, m, id)
         ELSE Let(ceil(n.Left, m, id), LAMBDA l :
              IF l # Nil THEN l ELSE n))

\* Tree.Ceil: the element returned, NoElem for nil
Ceil(root, q) ==
    IF root = Nil THEN NoElem
    ELSE Let(ceil(root, q.Start, q.ID), LAMBDA n :
         IF n = Nil THEN NoElem ELSE n.Elem)

\* What Floor and Ceil are called with: every Start with every ID in use.
FloorArgs ==
    {Elem(s, s, i) : s \in Comparables, i \in {e.ID : e \in Elems}}

----------------------------------------------------------------------------
(* The contents of a tree. *)

RECURSIVE InOrder(_)
\* The stored elements, left to right.
InOrder(n) ==
    IF n = Nil THEN <<>>
    ELSE InOrder(n.Left) \o <<n.Elem>> \o InOrder(n.Right)

RECURSIVE Nodes(_)
\* The nodes of the subtree at n.
Nodes(n) ==
    IF n = Nil THEN {} ELSE {n} \cup Nodes(n.Left) \cup Nodes(n.Right)

----------------------------------------------------------------------------
(* The state machine. *)

Init ==
    /\ Root = Nil
    /\ Count = 0
    /\ Mode = BU23
    /\ lastOp = [op |-> "NewTree", e |-> NoElem, fast |-> FALSE,
                 err |-> "nil", d |-> 0]

\* An unrecovered panic ends the program: no operation follows it.
Running == lastOp.err # "panic"

Insert(e, fast) ==
    /\ Running
    /\ Count < MaxNodes
    /\ \E t \in {TreeInsert(Root, Count, e, fast)} :
          /\ Root' = t.Root
          /\ Count' = t.Count
          /\ lastOp' = [op |-> "Insert", e |-> e, fast |-> fast,
                        err |-> t.err, d |-> t.Count - Count]
    /\ UNCHANGED Mode

Delete(e, fast) ==
    /\ Running
    /\ \E t \in {TreeDelete(Root, Count, e, fast)} :
          /\ Root' = t.Root
          /\ Count' = t.Count
          /\ lastOp' = [op |-> "Delete", e |-> e, fast |-> fast,
                        err |-> t.err, d |-> t.Count - Count]
    /\ UNCHANGED Mode

DeleteMin(fast) ==
    /\ Running
    /\ \E t \in {TreeDeleteMin(Root, Count, fast)} :
          /\ Root' = t.Root
          /\ Count' = t.Count
          /\ lastOp' = [op |-> "DeleteMin", e |-> NoElem, fast |-> fast,
                        err |-> t.err, d |-> t.Count - Count]
    /\ UNCHANGED Mode

DeleteMax(fast) ==
    /\ Running
    /\ \E t \in {TreeDeleteMax(Root, Count, fast)} :
          /\ Root' = t.Root
          /\ Count' = t.Count
          /\ lastOp' = [op |-> "DeleteMax", e |-> NoElem, fast |-> fast,
                        err |-> t.err, d |-> t.Count - Count]
    /\ UNCHANGED Mode

AdjustRanges ==
    /\ Running
    /\ Root' = TreeAdjustRanges(Root)
    /\ lastOp' = [op |-> "AdjustRanges", e |-> NoElem, fast |-> FALSE,
                  err |-> "nil", d |-> 0, wrote |-> Root' # Root]
    /\ UNCHANGED <<Count, Mode>>

Next ==
    \/ \E e \in Elems, fast \in BOOLEAN : Insert(e, fast)
    \/ \E e \in DeleteArgs, fast \in BOOLEAN : Delete(e, fast)
    \/ \E fast \in BOOLEAN : DeleteMin(fast)
    \/ \E fast \in BOOLEAN : DeleteMax(fast)
    \/ AdjustRanges

Spec == Init /\ [][Next]_vars

\* The non-fast mutations alone: the tree stays in the consistent state.
NextEager ==
    \/ \E e \in Elems : Insert(e, FALSE)
    \/ \E e \in DeleteArgs : Delete(e, FALSE)
    \/ DeleteMin(FALSE)
    \/ DeleteMax(FALSE)

SpecEager == Init /\ [][NextEager]_vars

\* Insert of an element whose key is not stored.
InsertNew(e, fast) ==
    /\ \A n \in Nodes(Root) : ~(n.Elem.Start = e.Start /\ n.Elem.ID = e.ID)
    /\ Insert(e, fast)

\* Inserts of elements with pairwise distinct keys, and nothing else.
NextInsertNew == \E e \in Elems, fast \in BOOLEAN : InsertNew(e, fast)

SpecInsertNew == Init /\ [][NextInsertNew]_vars

\* The tree a run of non-fast inserts has built next to the fast one.
Eager(lo) ==
    IF "eager" \in DOMAIN lo THEN lo.eager ELSE [Root |-> Nil, Count |-> 0]

\* One Insert of e on two trees: Root and Count take it with fast = true,
\* the tree kept in lastOp.eager takes it with fast = false.
InsertBoth(e) ==
    /\ Running
    /\ Count < MaxNodes
    /\ \E t \in {TreeInsert(Root, Count, e, TRUE)},
          u \in {TreeInsert(Eager(lastOp).Root, Eager(lastOp).Count, e, FALSE)} :
          /\ Root' = t.Root
          /\ Count' = t.Count
          /\ lastOp' = [op |-> "Insert", e |-> e, fast |-> TRUE,
                        err |-> t.err, d |-> t.Count - Count,
                        eager |-> [Root |-> u.Root, Count |-> u.Count]]
    /\ UNCHANGED Mode

\* The same inserts on both trees, and nothing else.
NextInsertBoth == \E e \in Elems : InsertBoth(e)

SpecInsertBoth == Init /\ [][NextInsertBoth]_vars

\* The program with Mode set to TD234 before the tree is made.
InitTD234 ==
    /\ Root = Nil
    /\ Count = 0
    /\ Mode = TD234
    /\ lastOp = [op |-> "NewTree", e |-> NoElem, fast |-> FALSE,
                 err |-> "nil", d |-> 0]

SpecTD234 == InitTD234 /\ [][Next]_vars

----------------------------------------------------------------------------
(* What the claims speak of. *)

Range_(seq) == {seq[i] : i \in 1..Len(seq)}

Reverse(seq) == [i \in 1..Len(seq) |-> seq[Len(seq) + 1 - i]]

\* The stored elements that overlap q, left to right.
Overlapping(n, q) ==
    SelectSeq(InOrder(n), LAMBDA e : Overlap(q, ElemRange(e)))

\* n.Range is the extent of n's subtree: the least Start and the greatest
\* End of the elements below n, n's own included.
Augmented(n) ==
    LET es == Range_(InOrder(n))
    IN /\ \E e \in es : n.Range.Start = e.Start
       /\ \A e \in es : Compare(n.Range.Start, e.Start) <= 0
       /\ \E e \in es : n.Range.End = e.End
       /\ \A e \in es : Compare(n.Range.End, e.End) >= 0

\* The key order: Start first, by bytes, then ID, as numbers.
KeyLess(a, b) ==
    \/ Compare(a.Start, b.Start) < 0
    \/ Compare(a.Start, b.Start) = 0 /\ a.ID < b.ID

SameKey(a, b) == a.Start = b.Start /\ a.ID = b.ID

\* seq is strictly ascending in the key order.
Ascending(seq) == \A i \in 1..(Len(seq) - 1) : KeyLess(seq[i], seq[i + 1])

RECURSIVE BlackHeights(_)
\* The numbers of Black nodes on the paths from n to a nil link.
BlackHeights(n) ==
    IF n = Nil THEN {0}
    ELSE {h + (IF n.Color = Black THEN 1 ELSE 0) :
            h \in BlackHeights(n.Left) \cup BlackHeights(n.Right)}

\* C1: after any sequence of non-fast mutations, Get(q) is exactly the
\* stored elements that overlap q, each once, for every query range q, and
\* DoMatching and DoMatchingReverse visit the same elements.
C1_GetExact ==
    \A q \in Ranges :
        /\ Get(Root, q) = Overlapping(Root, q)
        /\ DoMatching(Root, 0, q).acc = Overlapping(Root, q)
        /\ DoMatchingReverse(Root, 0, q).acc = Reverse(Overlapping(Root, q))

\* A non-fast Delete has left three elements, and some query matches some
\* of them while the range of a whole subtree rules that subtree out.
C1_Witness ==
    /\ lastOp.op = "Delete" /\ lastOp.d = -1 /\ Count = 3
    /\ \E q \in Ranges :
          /\ Get(Root, q) # <<>>
          /\ Len(Get(Root, q)) < Len(InOrder(Root))
          /\ \E n \in Nodes(Root) :
                n.Left # Nil /\ ~Overlap(q, n.Left.Range) /\ n.Right # Nil

\* C2: after every non-fast mutation, every node's Range is the extent of
\* its subtree.
C2_Augmentation == \A n \in Nodes(Root) : Augmented(n)

\* A non-fast Delete has left a node whose Range is wider at both ends
\* than its own element's.
C2_Witness ==
    /\ lastOp.op = "Delete" /\ lastOp.d = -1 /\ Count >= 3
    /\ \E n \in Nodes(Root) :
          n.Range.End # n.Elem.End /\ n.Range.Start # n.Elem.Start

\* e's range is not inverted.
Valid(e) == Compare(e.Start, e.End) <= 0

\* Some stored element has e's Start and e's ID.
Stored(root, e) == \E x \in Range_(InOrder(root)) : SameKey(x, e)

\* seq without the elements that have e's key.
Without(seq, e) == SelectSeq(seq, LAMBDA x : ~SameKey(x, e))

\* seq with e in the place of every element that has e's key.
Replaced(seq, e) == [i \in 1..Len(seq) |-> IF SameKey(seq[i], e) THEN e ELSE seq[i]]

\* The element of seq with the least key, and the one with the greatest.
Least(seq) == CHOOSE x \in Range_(seq) : \A y \in Range_(seq) : ~KeyLess(y, x)

Greatest(seq) == CHOOSE x \in Range_(seq) : \A y \in Range_(seq) : ~KeyLess(x, y)

\* C3: after any sequence of mutations, Do visits the stored elements in
\* strictly ascending (Start, ID) order, and DoReverse in the reverse order.
C3_KeyOrder ==
    /\ Ascending(Do(Root, 0).acc)
    /\ DoReverse(Root, 0).acc = Reverse(Do(Root, 0).acc)

\* C4: after every mutation the root is Black, no node has a Red right
\* child, no Red node has a Red child, and no node has two Red children.
C4_Colours ==
    /\ color(Root) = Black
    /\ \A n \in Nodes(Root) :
          /\ color(n.Right) = Black
          /\ n.Color = Red => color(n.Left) = Black
          /\ ~(color(n.Left) = Red /\ color(n.Right) = Red)

\* A Delete has removed an element and left at least two, one of them in a
\* Red node.
C4_Witness ==
    /\ lastOp.op = "Delete" /\ lastOp.d = -1 /\ Count >= 2
    /\ \E n \in Nodes(Root) : n.Color = Red

\* C5: after every mutation, every path from the root to a nil link
\* crosses the same number of Black nodes.
C5_BlackBalance == Cardinality(BlackHeights(Root)) = 1

\* C6: a non-fast Delete of an element whose range is not inverted and
\* whose key is stored leaves the stored elements without that one, and
\* Len() one smaller.
C6_DeleteRemoves ==
    [][(lastOp'.op = "Delete" /\ Valid(lastOp'.e) /\ Stored(Root, lastOp'.e))
       => /\ InOrder(Root') = Without(InOrder(Root), lastOp'.e)
          /\ Count' = Count - 1]_vars

\* C7: a Delete of an element whose range is not inverted and whose key is
\* not stored returns nil and leaves the stored elements and Len() as they
\* were.
C7_DeleteAbsentNoOp ==
    [][(lastOp'.op = "Delete" /\ Valid(lastOp'.e) /\ ~Stored(Root, lastOp'.e))
       => /\ lastOp'.err = "nil"
          /\ InOrder(Root') = InOrder(Root)
          /\ Count' = Count]_vars

\* C8: Len() is the number of elements a full Do visits, and is never
\* negative.
C8_LenIsDoCount == Count = Len(Do(Root, 0).acc) /\ Count >= 0

\* C9: after inserts of elements with pairwise distinct keys, Do yields
\* exactly the inserted elements, each once (every insert adds its element
\* and nothing else), Min() is the one with the least key and Max() the one
\* with the greatest.
C9_Contents ==
    /\ [](Root # Nil => /\ Min(Root) = Least(Do(Root, 0).acc)
                        /\ Max(Root) = Greatest(Do(Root, 0).acc))
    /\ [][lastOp'.err = "nil"
          => /\ Range_(Do(Root', 0).acc) = Range_(Do(Root, 0).acc) \cup {lastOp'.e}
             /\ Len(Do(Root', 0).acc) = Len(Do(Root, 0).acc) + 1]_vars

\* C10: an Insert of an element whose key is stored leaves Len() as it was
\* and the new element in the place of the old one, and when it is not
\* fast and every Range was right before, every Range is right after.
C10_Replace ==
    [][(lastOp'.op = "Insert" /\ Valid(lastOp'.e) /\ Stored(Root, lastOp'.e))
       => /\ Count' = Count
          /\ InOrder(Root') = Replaced(InOrder(Root), lastOp'.e)
          /\ (~lastOp'.fast /\ C2_Augmentation) => C2_Augmentation']_vars

\* C11: an Insert or a Delete of an element whose Start is greater than its
\* End returns ErrInvertedRange and leaves Root (every node's element,
\* colour, links and Range) and Count as they were.
C11_InvertedRejected ==
    [][(lastOp'.op \in {"Insert", "Delete"} /\ ~Valid(lastOp'.e))
       => /\ lastOp'.err = "ErrInvertedRange"
          /\ Root' = Root
          /\ Count' = Count]_vars

\* An Insert of an inverted range has been rejected on a tree of two or more
\* elements.
C11_Witness ==
    /\ lastOp.op = "Insert" /\ ~Valid(lastOp.e)
    /\ lastOp.err = "ErrInvertedRange" /\ Count >= 2

\* The operations that change the stored elements.
Mutation(op) == op \in {"Insert", "Delete", "DeleteMin", "DeleteMax"}

\* C12: from any state, a non-fast Insert, Delete, DeleteMin or DeleteMax
\* that changes the number of stored elements leaves every node of the
\* tree with the right Range.
C12_EagerFromAnyState ==
    [][(Mutation(lastOp'.op) /\ ~lastOp'.fast /\ lastOp'.err = "nil"
        /\ lastOp'.d # 0)
       => C2_Augmentation']_vars

\* C12, amended: from a state where every node has the right Range, a
\* non-fast Insert, Delete, DeleteMin or DeleteMax leaves every node with
\* the right Range.
C12_EagerFromConsistent ==
    [][(Mutation(lastOp'.op) /\ ~lastOp'.fast /\ C2_Augmentation)
       => C2_Augmentation']_vars

\* A non-fast Insert has added a fourth element below a node that is not
\* the root, and every node has the right Range.
C12_Witness ==
    /\ lastOp.op = "Insert" /\ ~lastOp.fast /\ lastOp.d = 1 /\ Count = 4
    /\ C2_Augmentation
    /\ \E n \in Nodes(Root) :
          /\ n # Root
          /\ lastOp.e \in {c.Elem : c \in {n.Left, n.Right} \ {Nil}}

RECURSIVE Skeleton(_)
\* The subtree n without the Range fields: elements, colours and links.
Skeleton(n) ==
    IF n = Nil THEN Nil
    ELSE [Elem |-> n.Elem, Color |-> n.Color,
          Left |-> Skeleton(n.Left), Right |-> Skeleton(n.Right)]

\* C13: after any sequence of fast and non-fast mutations, AdjustRanges
\* leaves every node with the right Range, and leaves every element,
\* colour, child link and Count as it was.
C13_AdjustRangesRestores ==
    [][lastOp'.op = "AdjustRanges"
       => /\ C2_Augmentation'
          /\ Skeleton(Root') = Skeleton(Root)
          /\ Count' = Count]_vars

\* AdjustRanges has changed a Range in a tree of four elements.
C13_Witness ==
    /\ lastOp.op = "AdjustRanges" /\ lastOp.wrote /\ Count = 4

\* C14: after the same inserts, the tree built with fast = true and then
\* given to AdjustRanges is the tree built with fast = false: the same
\* shape, colours, elements, Range of every node, and Count.
C14_FastThenAdjustIsEager ==
    /\ TreeAdjustRanges(Root) = Eager(lastOp).Root
    /\ Count = Eager(lastOp).Count

\* Four elements are stored by fast inserts and some Range is not what
\* AdjustRanges makes it.
C14_Witness ==
    /\ "eager" \in DOMAIN lastOp /\ Count = 4
    /\ TreeAdjustRanges(Root) # Root

\* a's key is b's key or less.
KeyLeq(a, b) == KeyLess(a, b) \/ SameKey(a, b)

\* C15: Floor(q) is the stored element with the greatest (Start, ID) key
\* that is q's key or less, Ceil(q) the one with the smallest key that is
\* q's key or more, and each is nil when there is no such element.
C15_FloorCeil ==
    \A q \in FloorArgs :
       LET es == Range_(InOrder(Root))
           below == {e \in es : KeyLeq(e, q)}
           above == {e \in es : KeyLeq(q, e)}
       IN /\ IF below = {} THEN Floor(Root, q) = NoElem
             ELSE /\ Floor(Root, q) \in below
                  /\ \A e \in below : KeyLeq(e, Floor(Root, q))
          /\ IF above = {} THEN Ceil(Root, q) = NoElem
             ELSE /\ Ceil(Root, q) \in above
                  /\ \A e \in above : KeyLeq(Ceil(Root, q), e)

\* C16: DeleteMin removes the stored element with the smallest (Start, ID)
\* key and no other, DeleteMax the one with the largest key and no other,
\* each making Len() one smaller; on an empty tree both change nothing.
C16_DeleteMinMax ==
    [][/\ lastOp'.op = "DeleteMin"
          => IF Root = Nil THEN Root' = Nil /\ Count' = 0
             ELSE /\ lastOp'.err = "nil"
                  /\ InOrder(Root') = Without(InOrder(Root), Least(InOrder(Root)))
                  /\ Count' = Count - 1
       /\ lastOp'.op = "DeleteMax"
          => IF Root = Nil THEN Root' = Nil /\ Count' = 0
             ELSE /\ lastOp'.err = "nil"
                  /\ InOrder(Root') = Without(InOrder(Root), Greatest(InOrder(Root)))
                  /\ Count' = Count - 1]_vars

\* What a traversal that visits full does with a visitor that returns done
\* on its k-th call: r.acc is the calls made and r.done what it returned.
StopsAt(r, full, k) ==
    IF k >= 1 /\ k <= Len(full)
    THEN r.done /\ r.acc = SubSeq(full, 1, k)
    ELSE ~r.done /\ r.acc = full

\* C17: in Do, DoReverse, DoMatching and DoMatchingReverse a visitor that
\* returns done on its k-th call is called k times, on the first k elements
\* of the traversal, and the traversal returns true; a visitor that never
\* returns done is called on every element and the traversal returns false.
C17_EarlyTermination ==
    \A k \in 0..(MaxNodes + 1) :
       /\ StopsAt(Do(Root, k), Do(Root, 0).acc, k)
       /\ StopsAt(DoReverse(Root, k), DoReverse(Root, 0).acc, k)
       /\ \A q \in Ranges :
             /\ StopsAt(DoMatching(Root, k, q), DoMatching(Root, 0, q).acc, k)
             /\ StopsAt(DoMatchingReverse(Root, k, q),
                        DoMatchingReverse(Root, 0, q).acc, k)

\* Four elements are stored; Do and DoReverse stop after two calls and some
\* DoMatching over three or more matches stops after one.
C17_Witness ==
    /\ Count = 4
    /\ Do(Root, 2).done /\ Len(Do(Root, 2).acc) = 2
    /\ DoReverse(Root, 2).done /\ Len(DoReverse(Root, 2).acc) = 2
    /\ \E q \in Ranges :
          /\ Len(Get(Root, q)) >= 3
          /\ DoMatching(Root, 1, q).done
          /\ Len(DoMatchingReverse(Root, 1, q).acc) = 1

\* C18: an Insert, Delete, DeleteMin or DeleteMax with fast = true leaves
\* the Range of every node that was in the tree before as it was, and a
\* node it creates has the range of its element.
C18_FastWritesNoRange ==
    [][(Mutation(lastOp'.op) /\ lastOp'.fast)
       => \A m \in Nodes(Root') :
             IF \E n \in Nodes(Root) : SameKey(n.Elem, m.Elem)
             THEN \A n \in Nodes(Root) :
                     SameKey(n.Elem, m.Elem) => m.Range = n.Range
             ELSE m.Range = ElemRange(m.Elem)]_vars

\* C19: in any state, fast-stale included, a Delete (fast or not) of a
\* stored element with Start < End leaves the stored elements without that
\* one, and Len() one smaller.
C19_DeleteInStale ==
    [][(/\ lastOp'.op = "Delete"
        /\ Compare(lastOp'.e.Start, lastOp'.e.End) < 0
        /\ lastOp'.e \in Range_(InOrder(Root)))
       => /\ InOrder(Root') = Without(InOrder(Root), lastOp'.e)
          /\ Count' = Count - 1]_vars

\* C20: with Mode = TD234, after every mutation the root is Black, no node
\* has a Red right child, no Red node has a Red child, and every path from
\* the root to a nil link crosses the same number of Black nodes.
C20_TD234Colours ==
    /\ color(Root) = Black
    /\ \A n \in Nodes(Root) :
          /\ color(n.Right) = Black
          /\ n.Color = Red => color(n.Left) = Black /\ color(n.Right) = Black
    /\ Cardinality(BlackHeights(Root)) = 1

\* C20, amended: with Mode = TD234, after every mutation the root is Black,
\* a node has a Red right child only when its left child is Red too, and
\* no Red node has a Red child.
C20_TD234FourNodes ==
    /\ color(Root) = Black
    /\ \A n \in Nodes(Root) :
          /\ color(n.Right) = Red => color(n.Left) = Red
          /\ n.Color = Red => color(n.Left) = Black /\ color(n.Right) = Black

\* With Mode = TD234 an Insert has added an element, and a node whose
\* children are both older than that element has two Red children.
C20_Witness ==
    /\ Mode = TD234
    /\ lastOp.op = "Insert" /\ lastOp.d = 1 /\ Count >= 3
    /\ \E n \in Nodes(Root) :
          /\ color(n.Left) = Red /\ color(n.Right) = Red
          /\ lastOp.e \notin {n.Left.Elem, n.Right.Elem}

\* C21: for stored elements with equal Start, the wrapped difference
\* id - n.Elem.ID() that Insert, Floor and Ceil branch on has the sign of
\* the numeric comparison id < n.Elem.ID() that Delete branches on, for
\* every pair of IDs, those whose difference overflows included; so every
\* stored element is what Floor and Ceil return for its own key, and Delete
\* of it (a non-empty range, the tree consistent) removes it.
C21_IDTieBreak ==
    /\ \A n \in Nodes(Root), e \in Range_(InOrder(Root)) :
          e.Start = n.Elem.Start
          => ((WrapSub(e.ID, n.Elem.ID) < 0) <=> (e.ID < n.Elem.ID))
    /\ \A e \in Range_(InOrder(Root)) :
          /\ Floor(Root, e) # NoElem /\ SameKey(Floor(Root, e), e)
          /\ Ceil(Root, e) # NoElem /\ SameKey(Ceil(Root, e), e)
          /\ Compare(e.Start, e.End) < 0
             => ~Stored(TreeDelete(Root, Count, e, FALSE).Root, e)

====
